---- MODULE Spec2Model ----
(***************************************************************************)
(* State-machine model of verify_setup.py (ReCom setup verification).      *)
(*                                                                         *)
(* main() runs four checks, collects their booleans in the list `checks`,  *)
(* prints a summary and returns 0 or 1.  The environment (import outcomes, *)
(* directory presence, .git presence, git subprocess outcomes) is read     *)
(* step by step; every read is a nondeterministic choice that is recorded  *)
(* in a history variable so that results can be compared with what the     *)
(* environment was.                                                        *)
(***************************************************************************)
EXTENDS Integers, Sequences, FiniteSets, TLC

VARIABLES
    version,     \* sys.version_info as <<major, minor>>
    order,       \* the order in which main() evaluates the four checks
    pc,          \* control point of the script
    checks,      \* main(): booleans of the checks that have returned
    i,           \* loop index of the running check (packages / directories)
    all_ok,      \* local all_ok of the running check
    imported,    \* history: outcome of each __import__ call, in call order
    dirsSeen,    \* history: number of os.path.isdir(directory) calls made
    dirsFound,   \* history: how many of them answered True
    gitDir,      \* history: answer of os.path.isdir(".git")
    gitRuns,     \* history: the subprocess.run calls, in call order
    log,         \* what was printed (banners, git values, summary)
    exitCode     \* value main() returned to sys.exit, NoExit before

vars == <<version, order, pc, checks, i, all_ok, imported, dirsSeen,
          dirsFound, gitDir, gitRuns, log, exitCode>>

----------------------------------------------------------------------------
(* Bounds of the model *)

MaxMajor == 4
MaxMinor == 11

(* Program constants *)

\* lines 56-64: the import names, in list order
Packages == <<"numpy", "pandas", "scipy", "matplotlib", "seaborn",
              "jupyter", "IPython">>

\* lines 98-107
Directories == <<"data", "data/raw", "data/processed", "notebooks", "src",
                 "models", "tests", "docs">>

\* lines 215-220: the order in which main() evaluates the checks
FixedOrder == <<"version", "packages", "directories", "git">>

NumPackages == Len(Packages)
NumDirectories == Len(Directories)
NumChecks == Len(FixedOrder)

\* line 36
MinMajor == 3
MinMinor == 9

\* exitCode before main() has returned
NoExit == -1

\* sys.version_info values considered: majors 2..MaxMajor, with minor 0 and
\* the minors from just below the threshold of line 36 up to MaxMinor
Versions == (2..MaxMajor) \X ({0} \cup ((MinMinor - 1)..MaxMinor))

\* a printed line; `value` is the text interpolated into it, if any
Line(text) == [line |-> text, value |-> <<>>]

\* __import__ either returns the module, raises ImportError
\* (ModuleNotFoundError is a subclass), or raises something else while the
\* module's own code runs.
ImportOutcomes == {"ok", "notfound", "raises"}

\* subprocess.run(..., check=True) either completes with status zero, raises
\* CalledProcessError (non-zero status), raises FileNotFoundError (no git on
\* PATH), or raises another OSError at launch (e.g. PermissionError).
GitOutcomes == {"ok", "nonzero", "notfound", "oserror"}

\* Sample raw standard outputs of `git config <key>`.
GitStdouts == { <<"a", "\n">>, <<" ", "a", " ", "b", " ", "\n">>, <<"\n">> }

Whitespace == {" ", "\n", "\t"}

----------------------------------------------------------------------------
(* Pure helpers *)

RECURSIVE LStrip(_)
LStrip(s) ==
    IF s = <<>> THEN <<>>
    ELSE IF Head(s) \in Whitespace THEN LStrip(Tail(s)) ELSE s

RECURSIVE RStrip(_)
RStrip(s) ==
    IF s = <<>> THEN <<>>
    ELSE IF s[Len(s)] \in Whitespace THEN RStrip(SubSeq(s, 1, Len(s) - 1))
    ELSE s

\* str.strip()
Strip(s) == RStrip(LStrip(s))

\* line 36: version.major >= 3 and version.minor >= 9
PythonVersionOK(v) == v[1] >= MinMajor /\ v[2] >= MinMinor

\* variant: all_ok reflects only the import made last
PackageAllOkLastOnly(ok, outcome) == outcome = "ok"

\* lines 69-80: all_ok after one iteration of the package loop
PackageAllOk(ok, outcome) == IF outcome = "ok" THEN ok ELSE FALSE

\* line 78: except ImportError
ImportCaught(outcome) == outcome = "notfound"

\* variant: a missing directory counts as a failure
DirectoryAllOkStrict(ok, present) == ok /\ present

\* lines 112-116: all_ok after one iteration of the directory loop
DirectoryAllOk(ok, present) == ok

\* variant: no early return when .git is missing
GitNotInitializedIgnored(present) == FALSE

\* line 135: if not os.path.isdir(".git")
GitNotInitialized(present) == ~present

\* variant: only CalledProcessError is caught
GitCaughtExitStatusOnly(outcome) == outcome = "nonzero"

\* line 166: except (subprocess.CalledProcessError, FileNotFoundError)
GitCaught(outcome) == outcome \in {"nonzero", "notfound"}

\* variant: each read in a try block of its own, the second read always made
AfterUserNameContinue(outcome) == "git_email"

\* lines 143-166: where control goes when the user.name read has completed or
\* raised a caught error: on to the user.email read, or into the except clause
AfterUserName(outcome) == IF outcome = "ok" THEN "git_email" ELSE "except"

\* variant: main() stops running checks at the first one that failed
RunNextUntilFailure(cs) ==
    Len(cs) < NumChecks /\ \A k \in 1..Len(cs) : cs[k]

\* lines 215-220: another element of the list is still to be evaluated
RunNext(cs) == Len(cs) < NumChecks

\* variant: any(checks)
AnyCheck(cs) == \E k \in 1..Len(cs) : cs[k]

\* variant: the soft directory check is left out of the aggregate by its
\* position in the list
AllChecksButThird(cs) == \A k \in (1..Len(cs)) \ {3} : cs[k]

\* line 227: all(checks)
AllChecks(cs) == \A k \in 1..Len(cs) : cs[k]

NextCheck == order[Len(checks) + 1]

----------------------------------------------------------------------------
(* Initial states *)

InitCommon ==
    /\ version \in Versions
    /\ pc = "main"
    /\ checks = <<>>
    /\ i = 0
    /\ all_ok = TRUE
    /\ imported = <<>>
    /\ dirsSeen = 0
    /\ dirsFound = 0
    /\ gitDir = "unread"
    /\ gitRuns = <<>>
    /\ log = <<>>
    /\ exitCode = NoExit

\* main() as written: the list literal of lines 215-220
Init == InitCommon /\ order = FixedOrder

\* main() with the four calls of lines 216-219 written in any order, for an
\* interpreter on either side of the version threshold
Orders == { [k \in 1..NumChecks |-> FixedOrder[p[k]]] :
                p \in Permutations(1..NumChecks) }

OrderVersions == { <<MinMajor, MinMinor - 1>>, <<MinMajor, MinMinor>> }

InitAnyOrder ==
    /\ InitCommon
    /\ version \in OrderVersions
    /\ order \in Orders

----------------------------------------------------------------------------
(* Actions *)

\* check_python_version(), lines 18-41
CheckPythonVersion ==
    /\ pc = "main" /\ RunNext(checks) /\ NextCheck = "version"
    /\ checks' = Append(checks, PythonVersionOK(version))
    /\ log' = Append(log, Line("CHECKING PYTHON VERSION"))
    /\ UNCHANGED <<version, order, pc, i, all_ok, imported, dirsSeen,
                   dirsFound, gitDir, gitRuns, exitCode>>

\* check_required_packages(), lines 50-66
PackagesBegin ==
    /\ pc = "main" /\ RunNext(checks) /\ NextCheck = "packages"
    /\ pc' = "packages"
    /\ i' = 1
    /\ all_ok' = TRUE
    /\ log' = Append(log, Line("CHECKING REQUIRED PACKAGES"))
    /\ UNCHANGED <<version, order, checks, imported, dirsSeen, dirsFound,
                   gitDir, gitRuns, exitCode>>

\* one iteration of the loop, lines 68-80
ImportPackage ==
    /\ pc = "packages" /\ i <= NumPackages
    /\ \E outcome \in ImportOutcomes :
        /\ imported' = Append(imported, <<Packages[i], outcome>>)
        /\ IF outcome = "ok" \/ ImportCaught(outcome)
           THEN /\ all_ok' = PackageAllOk(all_ok, outcome)
                /\ i' = i + 1
                /\ pc' = pc
           ELSE /\ pc' = "crashed"
                /\ UNCHANGED <<i, all_ok>>
    /\ UNCHANGED <<version, order, checks, dirsSeen, dirsFound, gitDir,
                   gitRuns, log, exitCode>>

\* line 82
PackagesReturn ==
    /\ pc = "packages" /\ i > NumPackages
    /\ checks' = Append(checks, all_ok)
    /\ pc' = "main"
    /\ UNCHANGED <<version, order, i, all_ok, imported, dirsSeen, dirsFound,
                   gitDir, gitRuns, log, exitCode>>

\* check_directory_structure(), lines 91-109
DirectoriesBegin ==
    /\ pc = "main" /\ RunNext(checks) /\ NextCheck = "directories"
    /\ pc' = "directories"
    /\ i' = 1
    /\ all_ok' = TRUE
    /\ log' = Append(log, Line("CHECKING DIRECTORY STRUCTURE"))
    /\ UNCHANGED <<version, order, checks, imported, dirsSeen, dirsFound,
                   gitDir, gitRuns, exitCode>>

\* one iteration of the loop, lines 111-116
CheckDirectory ==
    /\ pc = "directories" /\ i <= NumDirectories
    /\ \E present \in BOOLEAN :
        /\ dirsSeen' = dirsSeen + 1
        /\ dirsFound' = IF present THEN dirsFound + 1 ELSE dirsFound
        /\ all_ok' = DirectoryAllOk(all_ok, present)
    /\ i' = i + 1
    /\ UNCHANGED <<version, order, pc, checks, imported, gitDir, gitRuns,
                   log, exitCode>>

\* line 118
DirectoriesReturn ==
    /\ pc = "directories" /\ i > NumDirectories
    /\ checks' = Append(checks, all_ok)
    /\ pc' = "main"
    /\ UNCHANGED <<version, order, i, all_ok, imported, dirsSeen, dirsFound,
                   gitDir, gitRuns, log, exitCode>>

\* check_git_setup(), lines 127-140
GitBegin ==
    /\ pc = "main" /\ RunNext(checks) /\ NextCheck = "git"
    /\ \E present \in BOOLEAN :
        /\ gitDir' = IF present THEN "present" ELSE "absent"
        /\ IF GitNotInitialized(present)
           THEN /\ checks' = Append(checks, FALSE)
                /\ pc' = "main"
                /\ log' = log \o <<Line("CHECKING GIT SETUP"),
                                   Line("Git repository not initialized")>>
           ELSE /\ checks' = checks
                /\ pc' = "git_name"
                /\ log' = log \o <<Line("CHECKING GIT SETUP"),
                                   Line("Git repository initialized")>>
    /\ UNCHANGED <<version, order, i, all_ok, imported, dirsSeen, dirsFound,
                   gitRuns, exitCode>>

\* the except clause, lines 166-171
GitExcept ==
    /\ log' = Append(log, Line("Git not configured or not in PATH"))
    /\ checks' = Append(checks, FALSE)
    /\ pc' = "main"

\* lines 145-152: subprocess.run(["git", "config", "user.name"], check=True)
GitUserName ==
    /\ pc = "git_name"
    /\ \E outcome \in GitOutcomes :
       \E raw \in (IF outcome = "ok" THEN GitStdouts ELSE {<<>>}) :
        /\ gitRuns' = Append(gitRuns,
               [key |-> "user.name", outcome |-> outcome, stdout |-> raw])
        /\ IF outcome # "ok" /\ ~GitCaught(outcome)
           THEN /\ pc' = "crashed"
                /\ UNCHANGED <<log, checks>>
           ELSE IF AfterUserName(outcome) = "git_email"
           THEN /\ log' = IF outcome = "ok"
                          THEN Append(log, [line |-> "user.name",
                                            value |-> Strip(raw)])
                          ELSE log
                /\ checks' = checks
                /\ pc' = "git_email"
           ELSE GitExcept
    /\ UNCHANGED <<version, order, i, all_ok, imported, dirsSeen, dirsFound,
                   gitDir, exitCode>>

\* lines 155-164: subprocess.run(["git", "config", "user.email"], check=True)
GitUserEmail ==
    /\ pc = "git_email"
    /\ \E outcome \in GitOutcomes :
       \E raw \in (IF outcome = "ok" THEN GitStdouts ELSE {<<>>}) :
        /\ gitRuns' = Append(gitRuns,
               [key |-> "user.email", outcome |-> outcome, stdout |-> raw])
        /\ IF outcome = "ok"
           THEN /\ log' = Append(log, [line |-> "user.email",
                                       value |-> Strip(raw)])
                /\ checks' = Append(checks, TRUE)
                /\ pc' = "main"
           ELSE IF GitCaught(outcome)
           THEN GitExcept
           ELSE /\ pc' = "crashed"
                /\ UNCHANGED <<log, checks>>
    /\ UNCHANGED <<version, order, i, all_ok, imported, dirsSeen, dirsFound,
                   gitDir, exitCode>>

\* main(), lines 222-237, and sys.exit(main()), line 242
Summary ==
    /\ pc = "main" /\ ~RunNext(checks)
    /\ IF AllChecks(checks)
       THEN /\ log' = log \o <<Line("VERIFICATION SUMMARY"), Line("NEXT STEPS")>>
            /\ exitCode' = 0
       ELSE /\ log' = log \o <<Line("VERIFICATION SUMMARY"), Line("Common fixes")>>
            /\ exitCode' = 1
    /\ pc' = "done"
    /\ UNCHANGED <<version, order, checks, i, all_ok, imported, dirsSeen,
                   dirsFound, gitDir, gitRuns>>

Next ==
    \/ CheckPythonVersion
    \/ PackagesBegin
    \/ ImportPackage
    \/ PackagesReturn
    \/ DirectoriesBegin
    \/ CheckDirectory
    \/ DirectoriesReturn
    \/ GitBegin
    \/ GitUserName
    \/ GitUserEmail
    \/ Summary

Spec == Init /\ [][Next]_vars

SpecAnyOrder == InitAnyOrder /\ [][Next]_vars

----------------------------------------------------------------------------
(* Vocabulary of the properties *)

\* position of check c in the list main() builds
PosOf(c) == CHOOSE k \in 1..NumChecks : order[k] = c

\* check c has returned its boolean to main()
Returned(c) == Len(checks) >= PosOf(c)

\* the boolean check c returned
ResultOf(c) == checks[PosOf(c)]

Printed(text) == \E k \in 1..Len(log) : log[k].line = text

AllFourTrue == \A k \in 1..NumChecks : checks[k]

\* (major, minor) compared in version order
VersionAtLeast(v, major, minor) ==
    v[1] > major \/ (v[1] = major /\ v[2] >= minor)

EveryImportSucceeded ==
    \A k \in 1..Len(imported) : imported[k][2] = "ok"

BothReadsSucceeded ==
    /\ Len(gitRuns) = 2
    /\ gitRuns[1].key = "user.name" /\ gitRuns[1].outcome = "ok"
    /\ gitRuns[2].key = "user.email" /\ gitRuns[2].outcome = "ok"

\* p is raw without its leading and trailing whitespace
IsTrimOf(p, raw) ==
    \E a \in 0..Len(raw) : \E b \in a..Len(raw) :
        /\ p = SubSeq(raw, a + 1, b)
        /\ \A k \in 1..a : raw[k] \in Whitespace
        /\ \A k \in (b + 1)..Len(raw) : raw[k] \in Whitespace
        /\ p # <<>> => (p[1] \notin Whitespace /\ p[Len(p)] \notin Whitespace)

CheckBanners == <<"CHECKING PYTHON VERSION", "CHECKING REQUIRED PACKAGES",
                  "CHECKING DIRECTORY STRUCTURE", "CHECKING GIT SETUP">>

IsCheckBanner(e) == \E k \in 1..NumChecks : CheckBanners[k] = e.line

IsGitValue(e) == e.line \in {"user.name", "user.email"}

RunSucceeded(r) == r.outcome = "ok"

----------------------------------------------------------------------------
(* C1 *)

\* C1: main() returns 0 and prints the "next steps" guide exactly when all
\* four collected booleans are true; otherwise it returns 1, prints the
\* remediation hints and not the guide.  No other value is ever returned,
\* and nothing is returned or decided before the run is done.
C1_ExitCodeIffAllChecks ==
    /\ exitCode \in {NoExit, 0, 1}
    /\ pc = "done" =>
        /\ Len(checks) = NumChecks
        /\ exitCode # NoExit
        /\ exitCode = 0 <=> AllFourTrue
        /\ Printed("NEXT STEPS") <=> AllFourTrue
        /\ Printed("Common fixes") <=> ~AllFourTrue
    /\ pc # "done" =>
        /\ exitCode = NoExit
        /\ ~Printed("NEXT STEPS") /\ ~Printed("Common fixes")

\* the spec's scenario: 3.11, every import fine, no directory, no .git
C1_Witness ==
    /\ pc = "done" /\ exitCode = 1
    /\ version = <<3, 11>>
    /\ checks = <<TRUE, TRUE, TRUE, FALSE>>
    /\ dirsFound = 0 /\ gitDir = "absent"
    /\ Printed("Common fixes")

----------------------------------------------------------------------------
(* C2 *)

\* C2: whatever the environment does, no exception escapes a check: the
\* script never ends in a crash, it always reaches the summary.
C2_NoExceptionEscapes == pc # "crashed"

----------------------------------------------------------------------------
(* C3 *)

\* C3: check_python_version returns true for every version that is at least
\* 3.9 in version order (every major above 3 included) and false for every
\* version below 3.9.
C3_VersionAtLeast39 ==
    Returned("version") =>
        (ResultOf("version") <=> VersionAtLeast(version, 3, 9))

----------------------------------------------------------------------------
(* C4 *)

\* C4: check_required_packages attempts the seven imports in list order; a
\* module-not-found failure does not stop the loop; the returned boolean is
\* true exactly when every one of the seven imports succeeded.
C4_EveryPackageAttempted ==
    /\ \A k \in 1..Len(imported) : imported[k][1] = Packages[k]
    /\ pc = "packages" =>
        /\ Len(imported) = i - 1
        /\ \A k \in 1..Len(imported) : imported[k][2] \in {"ok", "notfound"}
    /\ Returned("packages") =>
        /\ Len(imported) = NumPackages
        /\ ResultOf("packages") <=> EveryImportSucceeded

\* the first import failed and the last succeeded: still attempted, still false
C4_Witness ==
    /\ Returned("packages")
    /\ Len(imported) = NumPackages
    /\ imported[1] = <<"numpy", "notfound">>
    /\ \A k \in 2..NumPackages : imported[k][2] = "ok"
    /\ ResultOf("packages") = FALSE

----------------------------------------------------------------------------
(* C5 *)

\* C5: check_directory_structure returns true whatever directories exist,
\* and the exit code is decided by the rest of the environment alone
\* (interpreter version, imports, git), so it is the same for environments
\* that differ only in their directories.
C5_DirectoriesNeverFail ==
    /\ Returned("directories") =>
        /\ dirsSeen = NumDirectories
        /\ ResultOf("directories") = TRUE
    /\ pc = "done" =>
        (exitCode = 0 <=>
            /\ ResultOf("version")
            /\ EveryImportSucceeded
            /\ gitDir = "present" /\ BothReadsSucceeded)

\* no directory at all, and the script still exits 0
C5_Witness ==
    /\ pc = "done"
    /\ dirsSeen = NumDirectories /\ dirsFound = 0
    /\ ResultOf("directories") = TRUE
    /\ exitCode = 0

----------------------------------------------------------------------------
(* C6 *)

\* C6: check_git_setup returns true exactly when .git exists and both reads
\* (user.name, then user.email) completed with status zero.  A read that
\* fails by non-zero status or because git is not on the path is the last
\* one made, makes the check return false, and does not crash the script.
C6_GitResult ==
    /\ Returned("git") =>
        (ResultOf("git") <=> (gitDir = "present" /\ BothReadsSucceeded))
    /\ \A k \in 1..Len(gitRuns) :
        gitRuns[k].outcome \in {"nonzero", "notfound"} =>
            /\ k = Len(gitRuns)
            /\ pc # "crashed"
            /\ Returned("git") /\ ResultOf("git") = FALSE

\* .git exists, git is not on the path
C6_Witness ==
    /\ gitDir = "present"
    /\ Len(gitRuns) = 1 /\ gitRuns[1].outcome = "notfound"
    /\ Returned("git") /\ ResultOf("git") = FALSE
    /\ pc = "done"

----------------------------------------------------------------------------
(* C7 *)

\* C7: when .git is absent, check_git_setup returns false and no subprocess
\* is launched at any point of the run.
C7_NoSubprocessWithoutGitDir ==
    gitDir = "absent" =>
        /\ gitRuns = <<>>
        /\ Returned("git") /\ ResultOf("git") = FALSE

C7_Witness ==
    /\ pc = "done"
    /\ gitDir = "absent"
    /\ gitRuns = <<>>
    /\ ResultOf("git") = FALSE

----------------------------------------------------------------------------
(* C8 *)

\* what the checks return for the environment that was observed
EnvResult(c) ==
    CASE c = "version" -> PythonVersionOK(version)
      [] c = "packages" -> EveryImportSucceeded
      [] c = "directories" -> TRUE
      [] c = "git" -> gitDir = "present" /\ BothReadsSucceeded

\* the list main() builds when the checks run in the order of lines 216-219
FixedOrderChecks == [k \in 1..NumChecks |-> EnvResult(FixedOrder[k])]

\* C8: in whatever order the four checks run, each returns the boolean it
\* returns in the fixed order for the same environment, and the aggregate
\* and the exit code are those of the fixed order; a run ends without a
\* result only where the fixed order does too (an escaped exception).
C8_OrderInsensitive ==
    /\ \A c \in {"version", "packages", "directories", "git"} :
        Returned(c) => ResultOf(c) = EnvResult(c)
    /\ pc = "done" =>
        /\ Len(checks) = NumChecks
        /\ exitCode = IF AllChecks(FixedOrderChecks) THEN 0 ELSE 1
        /\ Printed("NEXT STEPS") <=> AllChecks(FixedOrderChecks)
    /\ pc = "crashed" =>
        \/ \E k \in 1..Len(imported) : imported[k][2] = "raises"
        \/ \E k \in 1..Len(gitRuns) : gitRuns[k].outcome = "oserror"

\* the reverse order, the git check (run first) being the only one to fail
C8_Witness ==
    /\ order = <<"git", "directories", "packages", "version">>
    /\ pc = "done"
    /\ checks = <<FALSE, TRUE, TRUE, TRUE>>
    /\ exitCode = 1

----------------------------------------------------------------------------
(* C9 *)

\* C9, as claimed: whenever .git exists, check_git_setup invokes git exactly
\* twice, also when the first invocation fails.
C9_AlwaysTwoInvocations ==
    (Returned("git") /\ gitDir = "present") => Len(gitRuns) = 2

\* C9, amended: whenever .git exists, git is invoked first for user.name
\* and, only if that read succeeded, a second time for user.email: exactly
\* twice when the first read succeeds, exactly once when it fails.  The
\* trimmed standard output of every read that succeeded is printed, in
\* order, and nothing is printed for a read that failed.
C9_SecondReadOnlyAfterFirst ==
    /\ Len(gitRuns) <= 2
    /\ gitRuns # <<>> => (gitDir = "present" /\ gitRuns[1].key = "user.name")
    /\ Len(gitRuns) = 2 =>
        (gitRuns[1].outcome = "ok" /\ gitRuns[2].key = "user.email")
    /\ (Returned("git") /\ gitDir = "present") =>
        Len(gitRuns) = IF gitRuns[1].outcome = "ok" THEN 2 ELSE 1
    /\ LET values == SelectSeq(log, IsGitValue)
           reads == SelectSeq(gitRuns, RunSucceeded)
       IN  /\ Len(values) = Len(reads)
           /\ \A k \in 1..Len(values) :
                /\ values[k].line = reads[k].key
                /\ IsTrimOf(values[k].value, reads[k].stdout)

\* the first read fails with a non-zero status: one invocation, nothing printed
C9_Witness ==
    /\ Returned("git") /\ gitDir = "present"
    /\ Len(gitRuns) = 1 /\ gitRuns[1].outcome = "nonzero"
    /\ SelectSeq(log, IsGitValue) = <<>>

----------------------------------------------------------------------------
(* C10 *)

\* C10: the checks run one after the other in the order version, packages,
\* directories, git, none of them twice; a check that returned false is
\* followed by the next one; the summary banner and the pass/fail decision
\* come only when all four have returned, each exactly once.
C10_EveryCheckOnceInOrder ==
    LET started == SelectSeq(log, IsCheckBanner)
        running == pc \in {"packages", "directories", "git_name", "git_email"}
    IN  /\ Len(started) <= NumChecks
        /\ \A k \in 1..Len(started) : started[k].line = CheckBanners[k]
        /\ pc \in {"main", "done"} => Len(started) = Len(checks)
        /\ running => Len(started) = Len(checks) + 1
        /\ pc = "done" => Len(checks) = NumChecks
        /\ (Printed("VERIFICATION SUMMARY") \/ exitCode # NoExit) =>
            /\ pc = "done"
            /\ Len(checks) = NumChecks
            /\ Len(started) = NumChecks

\* the first check returned false and the other three still ran
C10_Witness ==
    /\ pc = "done"
    /\ checks[1] = FALSE
    /\ Len(checks) = NumChecks
    /\ Len(SelectSeq(log, IsCheckBanner)) = NumChecks
    /\ Printed("VERIFICATION SUMMARY")

====
